---- MODULE Spec2Model ----
(***************************************************************************)
(* A model of the regression-reproduction harness of src/src/main.rs:      *)
(* the batch driver and issue pipeline (main), the collaborator calls      *)
(* (checked_run) and the run supervisor (run_simulation) with its child    *)
(* process, the child's descendants, the two pipes and the two drain       *)
(* threads, and the time limit made of TIMEOUT_SECS.                       *)
(*                                                                         *)
(* Text (file contents, revisions) and the bytes a child writes are        *)
(* sequences of byte values 0..255; text is ASCII.                         *)
(* An Option is a sequence of length 0 (None) or 1 (Some).                 *)
(***************************************************************************)
EXTENDS Integers, Sequences, FiniteSets

(***************************************************************************)
(* Bounds of the model.                                                    *)
(***************************************************************************)
\* Rows of the issue table in the multi-row batches.
NumRows == 2
\* Runs per issue; main.rs:18 sets 100, the model scales it down.
RUNS_PER_ISSUE == 2
\* Capacity of a pipe's kernel buffer, in bytes.
PipeCap == 1
\* Injected faults per batch: spawn failure, wait failure, filesystem
\* failure, and a time limit that elapses while the child is still working.
MaxFaults == 1

(***************************************************************************)
(* Options and text.                                                       *)
(***************************************************************************)
None == << >>
Some(x) == << x >>
IsNone(o) == o = << >>
Unwrap(o) == o[1]

\* char::is_whitespace on ASCII: tab, line feed, vertical tab, form feed,
\* carriage return, space.
White == {9, 10, 11, 12, 13, 32}

\* The index at which pat first occurs in s, 0 when it does not.
RECURSIVE FindFrom(_, _, _)
FindFrom(s, pat, k) ==
    IF k + Len(pat) - 1 > Len(s) THEN 0
    ELSE IF SubSeq(s, k, k + Len(pat) - 1) = pat THEN k
    ELSE FindFrom(s, pat, k + 1)

\* The separator ", " of line 149.
CommaSpace == << 44, 32 >>

\* s.split(", ").next(): the text before the first ", " (all of s without one).
SplitFirst(s) ==
    LET k == FindFrom(s, CommaSpace, 1)
    IN  IF k = 0 THEN s ELSE SubSeq(s, 1, k - 1)

\* str::trim: s without its leading and trailing whitespace.
RECURSIVE TrimStart(_)
TrimStart(s) ==
    IF s # << >> /\ Head(s) \in White THEN TrimStart(Tail(s)) ELSE s

RECURSIVE TrimEnd(_)
TrimEnd(s) ==
    IF s # << >> /\ s[Len(s)] \in White
    THEN TrimEnd(SubSeq(s, 1, Len(s) - 1))
    ELSE s

Trim(s) == TrimEnd(TrimStart(s))

\* The ASCII digit of d.
Digit(d) == 48 + d

\* i32::to_string: the decimal text of n.
RECURSIVE NatToString(_)
NatToString(n) ==
    IF n < 10 THEN << Digit(n) >>
    ELSE NatToString(n \div 10) \o << Digit(n % 10) >>

I32ToString(n) == IF n < 0 THEN << 45 >> \o NatToString(-n) ELSE NatToString(n)

\* The literal "-2" of lines 62, 110 and 125.
FailToken == << 45, 50 >>

\* The literal "-1 timed out" of line 121.
TimedOutToken == << 45, 49, 32, 116, 105, 109, 101, 100, 32, 111, 117, 116 >>

\* format!("error: {}", e)
ErrorText(e) == << 101, 114, 114, 111, 114, 58, 32 >> \o e

\* format!("{}\n", commit_str)
CommitText(c) == c \o << 10 >>

\* The messages of the io::Error of a failed spawn and of a failed wait.
SpawnErrMsg == << 69, 115 >>
WaitErrMsg == << 69, 119 >>

(***************************************************************************)
(* The time limit.  u64 and i64 are narrowed to U64Bits bits (two's        *)
(* complement for i64), so that every value and the wrap of `as` stay      *)
(* within the integers TLC computes with; the default of 600 seconds and   *)
(* chrono's bound of i64::MAX / 1000 seconds keep their places below       *)
(* i64::MAX.                                                               *)
(***************************************************************************)
U64Bits == 30

U64Max == 2 ^ U64Bits - 1
I64Max == 2 ^ (U64Bits - 1) - 1

\* The default of line 134.
DefaultTimeout == 600

\* The digits of s taken onto acc: None on a byte that is no digit and on a
\* value above u64::MAX.
RECURSIVE ParseDigits(_, _)
ParseDigits(acc, s) ==
    IF s = << >> THEN Some(acc)
    ELSE IF Head(s) \notin 48..57 THEN None
    ELSE IF acc > (U64Max - (Head(s) - 48)) \div 10 THEN None
    ELSE ParseDigits(10 * acc + (Head(s) - 48), Tail(s))

\* s.parse::<u64>(): an optional "+", then one digit or more.
ParseU64(s) ==
    LET t == IF s = << >> THEN s ELSE IF Head(s) = 43 THEN Tail(s) ELSE s
    IN  IF t = << >> THEN None ELSE ParseDigits(0, t)

\* std::env::var("TIMEOUT_SECS").ok().and_then(|s| s.parse::<u64>().ok())
\*     .unwrap_or(600)
TimeoutSecs(e) ==
    IF IsNone(e) THEN DefaultTimeout
    ELSE IF IsNone(ParseU64(Unwrap(e))) THEN DefaultTimeout
    ELSE Unwrap(ParseU64(Unwrap(e)))

\* timeout_secs as i64: the same bits, read as two's complement.
AsI64(u) == IF u > I64Max THEN u - 2 ^ U64Bits ELSE u

\* chrono's Duration::seconds(s): None stands for its panic on a value
\* beyond i64::MAX / 1000 seconds either way.
DurationSeconds(s) ==
    IF s > I64Max \div 1000 \/ s < -(I64Max \div 1000) THEN None ELSE Some(s)

\* Duration::to_std(): an error (None) for a negative duration.
ToStd(d) == IF d < 0 THEN None ELSE Some(d)

\* Duration::seconds(timeout_secs as i64).to_std().expect(...): the limit in
\* seconds, None where the expression panics.
TimeLimit(timeout_secs) ==
    LET d == DurationSeconds(AsI64(timeout_secs))
    IN  IF IsNone(d) THEN None ELSE ToStd(Unwrap(d))

\* The values of TIMEOUT_SECS: not set, "", "x", "-1", "+5", "0", "007",
\* the largest value chrono takes and the one above it, i64::MAX + 1,
\* u64::MAX and u64::MAX + 1.
EnvTexts ==
    {None, Some(<< >>), Some(<< 120 >>), Some(<< 45, 49 >>), Some(<< 43, 53 >>),
     Some(<< 48 >>), Some(<< 48, 48, 55 >>),
     Some(NatToString(I64Max \div 1000)),
     Some(NatToString(I64Max \div 1000 + 1)),
     Some(NatToString(I64Max + 1)), Some(NatToString(U64Max)),
     Some(NatToString(U64Max \div 10) \o << Digit((U64Max % 10) + 1) >>)}

(***************************************************************************)
(* UTF-8, as Read::read_to_string validates it: the bytes of the stream    *)
(* are read to the end and then checked; a stream that is not valid UTF-8  *)
(* gives an error and leaves the String as it was (empty).                 *)
(***************************************************************************)
IsCont(b) == b >= 128 /\ b <= 191

RECURSIVE Utf8Valid(_)
Utf8Valid(bs) ==
    IF bs = << >> THEN TRUE
    ELSE LET b == Head(bs)
         IN  IF b < 128 THEN Utf8Valid(Tail(bs))
             ELSE IF b >= 194 /\ b <= 223
                  THEN /\ Len(bs) >= 2
                       /\ IsCont(bs[2])
                       /\ Utf8Valid(SubSeq(bs, 3, Len(bs)))
             ELSE IF b >= 224 /\ b <= 239
                  THEN /\ Len(bs) >= 3
                       /\ IsCont(bs[2])
                       /\ IsCont(bs[3])
                       /\ (b = 224 => bs[2] >= 160)
                       /\ (b = 237 => bs[2] <= 159)
                       /\ Utf8Valid(SubSeq(bs, 4, Len(bs)))
             ELSE IF b >= 240 /\ b <= 244
                  THEN /\ Len(bs) >= 4
                       /\ IsCont(bs[2])
                       /\ IsCont(bs[3])
                       /\ IsCont(bs[4])
                       /\ (b = 240 => bs[2] >= 144)
                       /\ (b = 244 => bs[2] <= 143)
                       /\ Utf8Valid(SubSeq(bs, 5, Len(bs)))
             ELSE FALSE

\* let mut s = String::new(); let _ = stream.read_to_string(&mut s); s
ReadToString(bs) == IF Utf8Valid(bs) THEN bs ELSE << >>

(***************************************************************************)
(* The workload: what the process started by `sh -c <cmd>` does.  A        *)
(* program is a sequence of steps; running off its end is exit(0).         *)
(***************************************************************************)
W(fd, b) == [op |-> "write", fd |-> fd, n |-> b]
Fork(kind) == [op |-> "fork", fd |-> kind, n |-> 0]
Exit(c) == [op |-> "exit", fd |-> "", n |-> c]
Signal == [op |-> "signal", fd |-> "", n |-> 9]
Hang == [op |-> "hang", fd |-> "", n |-> 0]

Fds == {"out", "err"}

\* The workloads an option text can select; the option text << 48 + k >>
\* selects Workloads[k], the empty option text the workload that exits at once.
Workloads ==
    << << W("out", 65), W("err", 66), Exit(7) >>,
       << W("err", 66), W("err", 67), W("err", 68), W("out", 65) >>,
       << W("out", 65), W("out", 66), W("out", 67), W("err", 68) >>,
       << W("out", 255), W("err", 66) >>,
       << W("out", 195), W("out", 169) >>,
       << W("out", 65), Hang >>,
       << Fork("hold"), W("out", 65), Hang >>,
       << Fork("detach"), Hang >>,
       << Fork("hold"), W("out", 65) >>,
       << W("err", 66), Signal >> >>

OptTexts == {<< 48 + k >> : k \in 1..Len(Workloads)}

\* "RUST_LOG=limbo_sim=debug cargo run --bin limbo_sim -- "
Template ==
    << 82, 85, 83, 84, 95, 76, 79, 71, 61, 108, 105, 109, 98, 111, 95,
       115, 105, 109, 61, 100, 101, 98, 117, 103, 32, 99, 97, 114, 103,
       111, 32, 114, 117, 110, 32, 45, 45, 98, 105, 110, 32, 108, 105,
       109, 98, 111, 95, 115, 105, 109, 32, 45, 45, 32 >>

\* format!("RUST_LOG=limbo_sim=debug cargo run --bin limbo_sim -- {}", opts)
RunCmd(opts) == Template \o opts

\* The program `sh -c cmd` runs.
Behaviour(cmd) ==
    LET opts == SubSeq(cmd, Len(Template) + 1, Len(cmd))
    IN  IF opts = << >> THEN << >> ELSE Workloads[opts[1] - 48]

(***************************************************************************)
(* The issue table (LimboBugs.csv).  A row that does not deserialize into  *)
(* an IssueRow has ok = FALSE.                                             *)
(***************************************************************************)
IssueRow(id, commit_ids, opts, ok) ==
    [issue |-> id, commit_ids |-> commit_ids, opts |-> opts, ok |-> ok]

\* "", " ", "a", "a, b", " , b"
CommitTexts ==
    {<< >>, << 32 >>, << 97 >>, << 97, 44, 32, 98 >>, << 32, 44, 32, 98 >>}

\* The rows of the multi-row tables: no revision, a blank first revision, a
\* revision list, or a row that does not deserialize; the default options.
PlainRows(id) ==
    {IssueRow(id, c, None, TRUE) :
        c \in {None, Some(<< 32, 44, 32, 98 >>), Some(<< 97, 44, 32, 98 >>)}}
        \cup {IssueRow(id, None, None, FALSE)}

\* One-row tables: every revision text, the default options.
RevisionTables == {<< IssueRow(1, Some(c), None, TRUE) >> : c \in CommitTexts}

\* One-row tables: a revision list and every workload.
RichTables ==
    {<< IssueRow(1, Some(<< 97, 44, 32, 98 >>), Some(o), TRUE) >> : o \in OptTexts}

PlainTables ==
    {t \in [1..NumRows -> UNION {PlainRows(id) : id \in 1..NumRows}] :
        \A k \in 1..NumRows : t[k].issue = k}

Tables == RichTables \cup RevisionTables \cup PlainTables

\* The table of the batches that run with TIMEOUT_SECS set: one row, a
\* revision and the default options.
EnvTables == {<< IssueRow(1, Some(<< 97 >>), None, TRUE) >>}

(***************************************************************************)
(* The filesystem under results/.  A directory path is [issue, run], run 0 *)
(* for results/<issue>/ itself; a file path adds the file's name.  A file  *)
(* records its bytes and who wrote it: the record index and run index of   *)
(* the writing invocation of run_simulation (run 0: main itself; record 0: *)
(* an earlier batch left it).  made is the directories this batch created. *)
(***************************************************************************)
ArtifactNames == {"stdout.txt", "stderr.txt", "exit_code.txt"}

IssueDir(id) == [issue |-> id, run |-> 0]
RunDir(id, k) == [issue |-> id, run |-> k]
FilePath(dir, name) == [issue |-> dir.issue, run |-> dir.run, name |-> name]

Ids == 1..NumRows
DirPaths == {IssueDir(id) : id \in Ids}
                \cup {RunDir(id, k) : id \in Ids, k \in 1..RUNS_PER_ISSUE}
FilePaths == {FilePath(IssueDir(id), "commit.txt") : id \in Ids}
                \cup {FilePath(d, n) : d \in DirPaths \ {IssueDir(id) : id \in Ids},
                                      n \in ArtifactNames}

Stamp(r, k) == [r |-> r, run |-> k]
Prior == Stamp(0, 0)

NoFile == [exists |-> FALSE, data |-> << >>, by |-> Prior]
FileOf(data, by) == [exists |-> TRUE, data |-> data, by |-> by]

\* What an earlier batch left in a file.
OldData == << 111 >>

EmptyTree == [dirs |-> {}, made |-> {}, files |-> [p \in FilePaths |-> NoFile]]
PriorTree ==
    [dirs |-> DirPaths, made |-> {},
     files |-> [p \in FilePaths |-> FileOf(OldData, Prior)]]

\* fs::create_dir_all(dir): the directory and its missing ancestors.
CreateDirAll(tree, dir) ==
    [tree EXCEPT !.dirs = @ \cup {IssueDir(dir.issue), dir},
                 !.made = @ \cup ({IssueDir(dir.issue), dir} \ tree.dirs)]

\* fs::write(path, data): create or truncate, then write all of data.
WriteFile(tree, path, data, by) ==
    [tree EXCEPT !.files[path] = FileOf(data, by)]

VARIABLES
    table,      \* the rows of LimboBugs.csv
    env,        \* the value of TIMEOUT_SECS in the environment, if it is set
    limit,      \* the time limit given to the timed wait of the run in progress
    orphans,    \* the runs that returned with a process or thread running
    records,    \* main's records vector
    pc,         \* where the main thread is
    ri,         \* the index in records of the record the for loop is at
    i,          \* the run index of the inner loop
    fs,         \* the tree under results/
    child,      \* the sh child of the run in progress
    desc,       \* the descendant the child forked
    pipe,       \* the bytes in each pipe's kernel buffer
    drain,      \* each drain thread's position
    acc,        \* each drain thread's bytes read so far
    data,       \* stdout_data, stderr_data
    result,     \* the outcome of the timed wait
    wrote,      \* the bytes the child has written to each stream
    faults,     \* faults injected so far
    trace       \* what the batch has done, in order

vars == << table, env, limit, orphans, records, pc, ri, i, fs, child, desc,
           pipe, drain, acc, data, result, wrote, faults, trace >>

runVars == << child, desc, pipe, drain, acc, data, result, wrote >>

NoChild == [state |-> "none", prog |-> << >>, cpc |-> 1, status |-> None]
NoDesc == [state |-> "none", holds |-> FALSE]
Empty2 == [fd \in Fds |-> << >>]

Event(ev, r, k, name) == [ev |-> ev, r |-> r, run |-> k, name |-> name]

Init ==
    /\ env \in EnvTexts
    /\ table \in IF IsNone(env) THEN Tables ELSE EnvTables
    /\ limit = None
    /\ orphans = {}
    /\ records = << >>
    /\ pc = "start"
    /\ ri = 1
    /\ i = 1
    /\ fs \in {EmptyTree, PriorTree}
    /\ child = NoChild
    /\ desc = NoDesc
    /\ pipe = Empty2
    /\ drain = [fd \in Fds |-> "none"]
    /\ acc = Empty2
    /\ data = Empty2
    /\ result = "none"
    /\ wrote = Empty2
    /\ faults = 0
    /\ trace = << >>

(***************************************************************************)
(* main: the batch driver and the issue pipeline.                          *)
(***************************************************************************)
\* record.commit_ids.as_ref().and_then(|s| s.split(", ").next()...)
Commit(rec) ==
    IF IsNone(rec.commit_ids) THEN None
    ELSE Some(SplitFirst(Unwrap(rec.commit_ids)))

\* record.opts.unwrap_or_default()
Opts(rec) == IF IsNone(rec.opts) THEN << >> ELSE Unwrap(rec.opts)

\* Mutant of Skipped: the blank test left out.
SkippedOnlyNone(rec) == IsNone(Commit(rec))

\* commit.is_none() || commit.as_ref().unwrap().trim().is_empty()
Skipped(rec) ==
    IF IsNone(Commit(rec)) THEN TRUE ELSE Trim(Unwrap(Commit(rec))) = << >>

\* The rows read before the first row that fails to deserialize.
RECURSIVE GoodPrefix(_)
GoodPrefix(t) ==
    IF t = << >> \/ ~Head(t).ok THEN << >>
    ELSE << Head(t) >> \o GoodPrefix(Tail(t))

\* Mutant of ReadTable: the rows are processed as far as they were read.
ReadTableLenient ==
    /\ pc = "start"
    /\ records' = GoodPrefix(table)
    /\ pc' = "loop"
    /\ UNCHANGED << table, env, limit, orphans, ri, i, fs, runVars, faults,
                    trace >>

\* for result in reader.deserialize() { records.push(result?) }
ReadTable ==
    /\ pc = "start"
    /\ records' = GoodPrefix(table)
    /\ pc' = IF \A k \in 1..Len(table) : table[k].ok THEN "loop" ELSE "error"
    /\ UNCHANGED << table, env, limit, orphans, ri, i, fs, runVars, faults,
                    trace >>

AtRecord == pc = "loop" /\ ri <= Len(records)

\* The first run index of the inner loop.
FirstRun == 1

\* Mutant of LastRun: the range 1..RUNS_PER_ISSUE taken as exclusive.
LastRunExclusive == RUNS_PER_ISSUE - 1

\* The last run index of the inner loop, 1..=RUNS_PER_ISSUE.
LastRun == RUNS_PER_ISSUE

\* Where the pipeline goes after create_dir_all(&issue_dir).
AfterIssueDir == "cache"

\* Where the pipeline goes when `cargo cache -a` succeeds.
AfterCacheOk == "commit"

Skip ==
    /\ AtRecord
    /\ Skipped(records[ri])
    /\ ri' = ri + 1
    /\ trace' = Append(trace, Event("skip", ri, 0, ""))
    /\ UNCHANGED << table, env, limit, orphans, records, pc, i, fs, runVars,
                    faults >>

\* checked_run("git checkout <commit>") is Ok
CheckoutOk ==
    /\ AtRecord
    /\ ~Skipped(records[ri])
    /\ pc' = "mkissue"
    /\ trace' = Append(trace, Event("checkout_ok", ri, 0, ""))
    /\ UNCHANGED << table, env, limit, orphans, records, ri, i, fs, runVars,
                    faults >>

\* Mutant of CheckoutFail: the `continue` left out.
CheckoutFailFallsThrough ==
    /\ AtRecord
    /\ ~Skipped(records[ri])
    /\ pc' = "mkissue"
    /\ trace' = Append(trace, Event("checkout_fail", ri, 0, ""))
    /\ UNCHANGED << table, env, limit, orphans, records, ri, i, fs, runVars,
                    faults >>

\* checked_run("git checkout <commit>") is Err: continue
CheckoutFail ==
    /\ AtRecord
    /\ ~Skipped(records[ri])
    /\ ri' = ri + 1
    /\ trace' = Append(trace, Event("checkout_fail", ri, 0, ""))
    /\ UNCHANGED << table, env, limit, orphans, records, pc, i, fs, runVars,
                    faults >>

\* fs::create_dir_all(&issue_dir)?
CreateIssueDir ==
    /\ pc = "mkissue"
    /\ fs' = CreateDirAll(fs, IssueDir(records[ri].issue))
    /\ trace' = Append(trace, Event("mkdir", ri, 0, ""))
    /\ pc' = AfterIssueDir
    /\ UNCHANGED << table, env, limit, orphans, records, ri, i, runVars,
                    faults >>

\* checked_run("cargo cache -a") is Ok
CacheOk ==
    /\ pc = "cache"
    /\ pc' = AfterCacheOk
    /\ trace' = Append(trace, Event("cache_ok", ri, 0, ""))
    /\ UNCHANGED << table, env, limit, orphans, records, ri, i, fs, runVars,
                    faults >>

\* Mutant of CacheFail: the `continue` left out.
CacheFailFallsThrough ==
    /\ pc = "cache"
    /\ pc' = AfterCacheOk
    /\ trace' = Append(trace, Event("cache_fail", ri, 0, ""))
    /\ UNCHANGED << table, env, limit, orphans, records, ri, i, fs, runVars,
                    faults >>

\* checked_run("cargo cache -a") is Err: continue
CacheFail ==
    /\ pc = "cache"
    /\ ri' = ri + 1
    /\ pc' = "loop"
    /\ trace' = Append(trace, Event("cache_fail", ri, 0, ""))
    /\ UNCHANGED << table, env, limit, orphans, records, i, fs, runVars,
                    faults >>

\* fs::write(issue_dir.join("commit.txt"), format!("{}\n", commit_str))?
WriteCommit ==
    /\ pc = "commit"
    /\ fs' = WriteFile(fs, FilePath(IssueDir(records[ri].issue), "commit.txt"),
                       CommitText(Unwrap(Commit(records[ri]))), Stamp(ri, 0))
    /\ trace' = Append(trace, Event("write", ri, 0, "commit.txt"))
    /\ i' = FirstRun
    /\ pc' = "runs"
    /\ UNCHANGED << table, env, limit, orphans, records, ri, runVars,
                    faults >>

\* for i in 1..=RUNS_PER_ISSUE { run_simulation(&cmd, TIMEOUT_SECS, &run_dir) }
CallRun ==
    /\ pc = "runs"
    /\ i <= LastRun
    /\ child' = [NoChild EXCEPT !.prog = Behaviour(RunCmd(Opts(records[ri])))]
    /\ desc' = NoDesc
    /\ pipe' = Empty2
    /\ drain' = [fd \in Fds |-> "none"]
    /\ acc' = Empty2
    /\ data' = Empty2
    /\ result' = "none"
    /\ wrote' = Empty2
    /\ limit' = None
    /\ trace' = Append(trace, Event("run", ri, i, ""))
    /\ pc' = "rs_mkdir"
    /\ UNCHANGED << table, env, orphans, records, ri, i, fs, faults >>

\* The inner loop is over: the next record.
EndIssue ==
    /\ pc = "runs"
    /\ i > LastRun
    /\ ri' = ri + 1
    /\ pc' = "loop"
    /\ trace' = Append(trace, Event("end", ri, 0, ""))
    /\ UNCHANGED << table, env, limit, orphans, records, i, fs, runVars,
                    faults >>

\* Ok(())
Finish ==
    /\ pc = "loop"
    /\ ri > Len(records)
    /\ pc' = "done"
    /\ UNCHANGED << table, env, limit, orphans, records, ri, i, fs, runVars,
                    faults, trace >>

(***************************************************************************)
(* run_simulation: the run supervisor.                                     *)
(***************************************************************************)
RunDirNow == RunDir(records[ri].issue, i)

\* fs::write(output_dir.join(name), bytes).unwrap(), then on to `next`.
WriteArtifact(at, name, bytes, next) ==
    /\ pc = at
    /\ fs' = WriteFile(fs, FilePath(RunDirNow, name), bytes, Stamp(ri, i))
    /\ trace' = Append(trace, Event("write", ri, i, name))
    /\ pc' = next
    /\ UNCHANGED << table, env, limit, orphans, records, ri, i, runVars,
                    faults >>

\* fs::create_dir_all(output_dir).unwrap()
RsMkdir ==
    /\ pc = "rs_mkdir"
    /\ fs' = CreateDirAll(fs, RunDirNow)
    /\ trace' = Append(trace, Event("mkdir", ri, i, ""))
    /\ pc' = "rs_spawn"
    /\ UNCHANGED << table, env, limit, orphans, records, ri, i, runVars,
                    faults >>

\* Command::new("sh")...spawn() is Ok: the child runs, the two drain
\* threads are started on the read ends of its pipes, and the time limit
\* is made of timeout_secs for the timed wait.
SpawnOk ==
    /\ pc = "rs_spawn"
    /\ ~IsNone(TimeLimit(TimeoutSecs(env)))
    /\ child' = [child EXCEPT !.state = "running"]
    /\ drain' = [fd \in Fds |-> "reading"]
    /\ limit' = TimeLimit(TimeoutSecs(env))
    /\ trace' = Append(trace, Event("spawn", ri, i, ""))
    /\ pc' = "rs_wait"
    /\ UNCHANGED << table, env, orphans, records, ri, i, fs, desc, pipe, acc,
                    data, result, wrote, faults >>

\* Command::new("sh")...spawn() is Ok, the drain threads are started, and
\* making the time limit panics: Duration::seconds does, or
\* expect("duration conversion failed").  The child is left running.
ConversionFailed ==
    /\ pc = "rs_spawn"
    /\ IsNone(TimeLimit(TimeoutSecs(env)))
    /\ child' = [child EXCEPT !.state = "running"]
    /\ drain' = [fd \in Fds |-> "reading"]
    /\ trace' = Append(Append(trace, Event("spawn", ri, i, "")),
                       Event("panic", ri, i, "duration"))
    /\ pc' = "panicked"
    /\ UNCHANGED << table, env, limit, orphans, records, ri, i, fs, desc,
                    pipe, acc, data, result, wrote, faults >>

\* Command::new("sh")...spawn() is Err(e)
SpawnFail ==
    /\ pc = "rs_spawn"
    /\ faults < MaxFaults
    /\ faults' = faults + 1
    /\ result' = "spawn_err"
    /\ pc' = "rs_sf_err"
    /\ UNCHANGED << table, env, limit, orphans, records, ri, i, fs, child,
                    desc, pipe, drain, acc, data, wrote, trace >>

WriteSpawnErr ==
    WriteArtifact("rs_sf_err", "stderr.txt", ErrorText(SpawnErrMsg), "rs_sf_code")

WriteSpawnCode ==
    WriteArtifact("rs_sf_code", "exit_code.txt", FailToken, "rs_ret")

\* The pipe's write end is open in some live process.
HasWriter(fd) ==
    \/ child.state = "running"
    \/ desc.state = "alive" /\ desc.holds

\* The child's step, if it has one left.
ChildOp ==
    IF child.cpc <= Len(child.prog) THEN child.prog[child.cpc] ELSE Exit(0)

\* The pcs at which the processes and threads of the run in progress run.
ActivePcs ==
    {"rs_wait", "rs_join_out", "rs_join_err", "rs_w_out", "rs_w_err",
     "rs_w_code", "rs_we_err", "rs_we_code"}

\* write(2) on a pipe: blocks while the buffer is full.
ChildWrite ==
    /\ pc \in ActivePcs
    /\ child.state = "running"
    /\ ChildOp.op = "write"
    /\ Len(pipe[ChildOp.fd]) < PipeCap
    /\ pipe' = [pipe EXCEPT ![ChildOp.fd] = Append(@, ChildOp.n)]
    /\ wrote' = [wrote EXCEPT ![ChildOp.fd] = Append(@, ChildOp.n)]
    /\ child' = [child EXCEPT !.cpc = @ + 1]
    /\ UNCHANGED << table, env, limit, orphans, records, pc, ri, i, fs, desc,
                    drain, acc, data, result, faults, trace >>

\* The child starts a descendant, which inherits the pipes ("hold") or
\* redirects its output elsewhere ("detach").
ChildFork ==
    /\ pc \in ActivePcs
    /\ child.state = "running"
    /\ ChildOp.op = "fork"
    /\ desc' = [state |-> "alive", holds |-> ChildOp.fd = "hold"]
    /\ child' = [child EXCEPT !.cpc = @ + 1]
    /\ UNCHANGED << table, env, limit, orphans, records, pc, ri, i, fs, pipe,
                    drain, acc, data, result, wrote, faults, trace >>

\* The child exits with a code, or is ended by a signal (no code).
ChildExit ==
    /\ pc \in ActivePcs
    /\ child.state = "running"
    /\ ChildOp.op \in {"exit", "signal"}
    /\ child' = [child EXCEPT
                    !.state = "exited",
                    !.status = IF ChildOp.op = "exit" THEN Some(ChildOp.n) ELSE None]
    /\ UNCHANGED << table, env, limit, orphans, records, pc, ri, i, fs, desc,
                    pipe, drain, acc, data, result, wrote, faults, trace >>

\* The descendant exits by itself.
DescExit ==
    /\ pc \in ActivePcs
    /\ desc.state = "alive"
    /\ desc' = [desc EXCEPT !.state = "gone"]
    /\ UNCHANGED << table, env, limit, orphans, records, pc, ri, i, fs, child,
                    pipe, drain, acc, data, result, wrote, faults, trace >>

\* Mutant of MayDrain: stderr is read only once stdout is read to its end.
MayDrainSequential(fd) ==
    drain[fd] = "reading" /\ (fd = "err" => drain["out"] = "done")

\* The drain thread of fd may read: it was started and has not finished.
MayDrain(fd) == drain[fd] = "reading"

\* stream.read_to_string(&mut s): a read takes what the pipe holds; at end of
\* stream (no bytes, no writer) the bytes are validated and the thread stores
\* *buf.lock().unwrap() = s and finishes.
Drain(fd) ==
    /\ pc \in ActivePcs
    /\ MayDrain(fd)
    /\ \/ /\ pipe[fd] # << >>
          /\ acc' = [acc EXCEPT ![fd] = @ \o pipe[fd]]
          /\ pipe' = [pipe EXCEPT ![fd] = << >>]
          /\ UNCHANGED << drain, data >>
       \/ /\ pipe[fd] = << >>
          /\ ~HasWriter(fd)
          /\ data' = [data EXCEPT ![fd] = ReadToString(acc[fd])]
          /\ drain' = [drain EXCEPT ![fd] = "done"]
          /\ UNCHANGED << acc, pipe >>
    /\ UNCHANGED << table, env, limit, orphans, records, pc, ri, i, fs, child,
                    desc, result, wrote, faults, trace >>

DrainOut == Drain("out")
DrainErr == Drain("err")

\* The child sleeps for good.
AtHang == ChildOp.op = "hang"

\* The descendant after the time limit's termination of the child: the kill
\* is of the child's pid alone.
DescAfterTerminate(d) == d

\* wait() is Ok(Some(status)): the child has exited and is reaped.
WaitExit ==
    /\ pc = "rs_wait"
    /\ child.state = "exited"
    /\ child' = [child EXCEPT !.state = "reaped"]
    /\ result' = "exited"
    /\ pc' = "rs_join_out"
    /\ UNCHANGED << table, env, limit, orphans, records, ri, i, fs, desc,
                    pipe, drain, acc, data, wrote, faults, trace >>

\* wait() is Ok(None): the time limit elapsed with the child running, and
\* terminate_for_timeout killed and reaped it.
WaitTimeout ==
    /\ pc = "rs_wait"
    /\ child.state = "running"
    /\ AtHang \/ faults < MaxFaults
    /\ faults' = IF AtHang THEN faults ELSE faults + 1
    /\ child' = [child EXCEPT !.state = "killed"]
    /\ desc' = DescAfterTerminate(desc)
    /\ result' = "timeout"
    /\ pc' = "rs_join_out"
    /\ UNCHANGED << table, env, limit, orphans, records, ri, i, fs, pipe,
                    drain, acc, data, wrote, trace >>

\* wait() is Err(e): the child is left as it is.
WaitErr ==
    /\ pc = "rs_wait"
    /\ faults < MaxFaults
    /\ faults' = faults + 1
    /\ result' = "wait_err"
    /\ pc' = "rs_we_err"
    /\ UNCHANGED << table, env, limit, orphans, records, ri, i, fs, child,
                    desc, pipe, drain, acc, data, wrote, trace >>

\* let _ = stdout_thread.join();
JoinOut ==
    /\ pc = "rs_join_out"
    /\ drain["out"] = "done"
    /\ pc' = "rs_join_err"
    /\ UNCHANGED << table, env, limit, orphans, records, ri, i, fs, runVars,
                    faults, trace >>

\* let _ = stderr_thread.join();
JoinErr ==
    /\ pc = "rs_join_err"
    /\ drain["err"] = "done"
    /\ pc' = "rs_w_out"
    /\ UNCHANGED << table, env, limit, orphans, records, ri, i, fs, runVars,
                    faults, trace >>

\* status.code().map(|c| c.to_string()).unwrap_or("-2".to_string())
ExitCodeText(status) ==
    IF IsNone(status) THEN FailToken ELSE I32ToString(Unwrap(status))

\* Mutant of CodeToken: the Ok(None) arm reports the status like Ok(Some).
CodeTokenOfStatus == ExitCodeText(child.status)

\* What the Ok arms write to exit_code.txt.
CodeToken == IF result = "exited" THEN ExitCodeText(child.status) ELSE TimedOutToken

WriteStdout == WriteArtifact("rs_w_out", "stdout.txt", data["out"], "rs_w_err")

WriteStderr == WriteArtifact("rs_w_err", "stderr.txt", data["err"], "rs_w_code")

WriteExitCode == WriteArtifact("rs_w_code", "exit_code.txt", CodeToken, "rs_ret")

\* Mutant of WriteWaitErr: the first write of the arm goes to
\* exit_code_path.
WriteWaitCodeFirst ==
    WriteArtifact("rs_we_err", "exit_code.txt", FailToken, "rs_we_code")

WriteWaitErr ==
    WriteArtifact("rs_we_err", "stderr.txt", ErrorText(WaitErrMsg), "rs_we_code")

WriteWaitCode ==
    WriteArtifact("rs_we_code", "exit_code.txt", FailToken, "rs_ret")

\* The child or a drain thread of the invocation is running.
Unreleased ==
    \/ child.state = "running"
    \/ \E fd \in Fds : drain[fd] = "reading"

\* run_simulation returns to the inner loop: child, the thread handles and
\* the buffers are dropped, which ends no process and no thread.
Return ==
    /\ pc = "rs_ret"
    /\ i' = i + 1
    /\ pc' = "runs"
    /\ orphans' = IF Unreleased THEN orphans \cup {Stamp(ri, i)} ELSE orphans
    /\ trace' = Append(trace, Event("ret", ri, i, ""))
    /\ UNCHANGED << table, env, limit, records, ri, fs, runVars, faults >>

\* The child of a run that returned with it running comes to its end, and
\* the run's drain threads with it; a child that sleeps for good does not.
OrphanEnd ==
    /\ \E o \in orphans :
          /\ \A k \in 1..Len(Behaviour(RunCmd(Opts(records[o.r])))) :
                Behaviour(RunCmd(Opts(records[o.r])))[k].op # "hang"
          /\ orphans' = orphans \ {o}
    /\ UNCHANGED << table, env, limit, records, pc, ri, i, fs, runVars,
                    faults, trace >>

\* A filesystem call fails: `?` in main returns the error, unwrap() in
\* run_simulation panics.
MainFsPcs == {"mkissue", "commit"}
RunFsPcs ==
    {"rs_mkdir", "rs_sf_err", "rs_sf_code", "rs_w_out", "rs_w_err", "rs_w_code",
     "rs_we_err", "rs_we_code"}

FsFail ==
    /\ pc \in MainFsPcs \cup RunFsPcs
    /\ faults < MaxFaults
    /\ faults' = faults + 1
    /\ pc' = IF pc \in MainFsPcs THEN "error" ELSE "panicked"
    /\ UNCHANGED << table, env, limit, orphans, records, ri, i, fs, runVars,
                    trace >>

(***************************************************************************)
(* The specifications.                                                     *)
(***************************************************************************)
\* The steps the program and the processes it started take by themselves.
Progress ==
    \/ ReadTable \/ Skip \/ CheckoutOk \/ CreateIssueDir \/ CacheOk
    \/ WriteCommit \/ CallRun \/ EndIssue \/ Finish
    \/ RsMkdir \/ SpawnOk \/ ConversionFailed \/ WriteSpawnErr \/ WriteSpawnCode
    \/ ChildWrite \/ ChildFork \/ ChildExit \/ DrainOut \/ DrainErr
    \/ WaitExit \/ WaitTimeout \/ JoinOut \/ JoinErr
    \/ WriteStdout \/ WriteStderr \/ WriteExitCode
    \/ WriteWaitErr \/ WriteWaitCode \/ Return

\* What the environment may do to it.
Environment ==
    \/ CheckoutFail \/ CacheFail \/ SpawnFail \/ WaitErr \/ FsFail \/ DescExit
    \/ OrphanEnd

Next == Progress \/ Environment

Spec == Init /\ [][Next]_vars

\* The scheduler runs every thread and process that can take a step; the
\* environment's failures and a descendant's exit are not owed.
FairSpec == Spec /\ WF_vars(Progress)

(***************************************************************************)
(* Vocabulary of the properties.                                           *)
(***************************************************************************)
\* run_simulation has returned and the inner loop has not moved on.
Returned == pc = "rs_ret"

\* An artifact of the run directory of the run in progress.
Artifact(name) == fs.files[FilePath(RunDirNow, name)]

\* The file exists and the invocation in progress wrote it.
WrittenNow(name) == Artifact(name).exists /\ Artifact(name).by = Stamp(ri, i)

\* The positions of the trace at which record r did ev.
Events(ev, r) == {k \in 1..Len(trace) : trace[k].ev = ev /\ trace[k].r = r}
Has(ev, r) == Events(ev, r) # {}

\* The pipeline of record r is over and the driver has gone on.
PipelineEnded(r) == ri > r

\* The run indices whose directories the pipeline of record r created or
\* ensured with create_dir_all.
RunDirsEnsured(r) ==
    {trace[k].run : k \in {j \in Events("mkdir", r) : trace[j].run > 0}}

\* The revision of a row as the table gives it: the first entry of the
\* "Commit IDs" list is absent, or holds nothing but whitespace.
RevisionBlank(rec) ==
    \/ rec.commit_ids = None
    \/ \A k \in 1..Len(SplitFirst(rec.commit_ids[1])) :
          SplitFirst(rec.commit_ids[1])[k] \in White

(***************************************************************************)
(* C1.  Whenever run_simulation returns, its output directory holds all    *)
(* three artifacts stdout.txt, stderr.txt and exit_code.txt, each written  *)
(* by that invocation, whatever the outcome.                               *)
(* The code does not do this: the spawn-failure arm and the wait-failure   *)
(* arm never write stdout.txt.                                             *)
(***************************************************************************)
C1_AllArtifactsOnReturn ==
    Returned => \A n \in ArtifactNames : WrittenNow(n)

(***************************************************************************)
(* C2.  As claimed: for every record whose revision is present and whose   *)
(* checkout succeeded, once its pipeline is over the run directories       *)
(* run_1..run_N exist.  A failed cache reset ends the pipeline with none.  *)
(***************************************************************************)
C2_RunDirsAfterCheckout ==
    \A r \in 1..Len(records) :
        (PipelineEnded(r) /\ Has("checkout_ok", r)) =>
            \A k \in 1..RUNS_PER_ISSUE : RunDir(records[r].issue, k) \in fs.dirs

(***************************************************************************)
(* C2, amended.  For every record whose revision is present and whose      *)
(* checkout and cache reset both succeeded, once its pipeline is over the  *)
(* pipeline has ensured exactly the run directories run_1..run_N, numbered *)
(* contiguously from 1, and each exists, whatever the runs' outcomes.      *)
(***************************************************************************)
C2_RunDirsAfterCacheReset ==
    \A r \in 1..Len(records) :
        (PipelineEnded(r) /\ Has("checkout_ok", r) /\ Has("cache_ok", r)) =>
            /\ RunDirsEnsured(r) = 1..RUNS_PER_ISSUE
            /\ \A k \in 1..RUNS_PER_ISSUE :
                  RunDir(records[r].issue, k) \in fs.dirs

\* A pipeline that is over, with a run that timed out and was still given
\* its directory.
C2_Witness ==
    \E r \in 1..Len(records) :
        /\ PipelineEnded(r)
        /\ Has("cache_ok", r)
        /\ \E k \in 1..RUNS_PER_ISSUE :
              fs.files[FilePath(RunDir(records[r].issue, k), "exit_code.txt")]
                  = FileOf(TimedOutToken, Stamp(r, k))

(***************************************************************************)
(* C3.  When run_simulation has returned from a timed-out run, no process  *)
(* of that run's process tree is alive: neither the sh child nor any       *)
(* descendant it started.                                                  *)
(* The code kills the child's pid alone: a descendant that gave up the     *)
(* pipes outlives the return.                                              *)
(***************************************************************************)
C3_NoSurvivorAfterTimeout ==
    (Returned /\ result = "timeout") =>
        /\ child.state \in {"killed", "reaped"}
        /\ desc.state # "alive"

(***************************************************************************)
(* C6.  For a child that exits within the time limit with exit code c,     *)
(* after run_simulation returns exit_code.txt holds exactly the decimal    *)
(* text of c, and stdout.txt and stderr.txt hold exactly the bytes the     *)
(* child wrote to stdout and to stderr.                                    *)
(* The code captures through read_to_string: output that is not valid      *)
(* UTF-8 is dropped whole.                                                 *)
(***************************************************************************)
C6_ExactCapture ==
    (Returned /\ result = "exited" /\ child.status # None) =>
        /\ Artifact("exit_code.txt") =
              FileOf(I32ToString(child.status[1]), Stamp(ri, i))
        /\ Artifact("stdout.txt") = FileOf(wrote["out"], Stamp(ri, i))
        /\ Artifact("stderr.txt") = FileOf(wrote["err"], Stamp(ri, i))

(***************************************************************************)
(* C7.  When run_simulation returns over a run directory that already      *)
(* held artifacts, no artifact keeps content of the earlier run: every     *)
(* artifact there is was written by the latest invocation.                 *)
(* The code leaves the earlier stdout.txt in place on a spawn failure and  *)
(* on a wait failure.                                                      *)
(***************************************************************************)
C7_NoStaleArtifact ==
    Returned =>
        \A n \in ArtifactNames : Artifact(n).exists => Artifact(n).by = Stamp(ri, i)

\* Nothing under results/<issue of record r>/ was created or written by
\* this batch.
NothingProduced(r) ==
    /\ \A d \in fs.made : d.issue # records[r].issue
    /\ \A p \in FilePaths :
          p.issue = records[r].issue => fs.files[p] \in {NoFile, FileOf(OldData, Prior)}

(***************************************************************************)
(* C8.  For every record whose revision is absent or blank the pipeline    *)
(* produces nothing: no directory or file under results/<issue_id>/, no    *)
(* checkout, no cache reset, no run; all it does is skip.                  *)
(***************************************************************************)
C8_BlankRevisionNoEffect ==
    \A r \in 1..Len(records) :
        RevisionBlank(records[r]) =>
            /\ \A k \in 1..Len(trace) : trace[k].r = r => trace[k].ev = "skip"
            /\ NothingProduced(r)

\* A record with a blank first revision (the list itself is not empty) has
\* been skipped in a batch that did produce something for another record.
C8_Witness ==
    \E r \in 1..Len(records) :
        /\ records[r].commit_ids # None
        /\ Len(records[r].commit_ids[1]) > 1
        /\ RevisionBlank(records[r])
        /\ Has("skip", r)
        /\ fs.made # {}

(***************************************************************************)
(* C9.  When the checkout fails for a record, nothing is created under     *)
(* results/<issue_id>/, the cache reset is not called for it, no run of it *)
(* is attempted, and the driver goes on to the next record.                *)
(***************************************************************************)
C9_CheckoutFailureSkipsIssue ==
    \A r \in 1..Len(records) :
        Has("checkout_fail", r) =>
            /\ \A k \in 1..Len(trace) :
                  trace[k].r = r => trace[k].ev = "checkout_fail"
            /\ NothingProduced(r)
            /\ ri > r
            /\ pc \notin {"error", "panicked"} \/ ri \in (r + 1)..Len(records)

\* A checkout failed and the next record was checked out.
C9_Witness ==
    \E r \in 1..Len(records) :
        /\ Has("checkout_fail", r)
        /\ r < Len(records)
        /\ Has("checkout_ok", r + 1)
        /\ fs.made # {}

\* The value of a text of decimal digits.
RECURSIVE ParseNat(_)
ParseNat(s) ==
    IF s = << >> THEN 0 ELSE 10 * ParseNat(SubSeq(s, 1, Len(s) - 1)) + (s[Len(s)] - 48)

\* s is the decimal text of the non-negative c: digits only, no leading
\* zero, of value c.
IsDecimalOf(s, c) ==
    /\ s # << >>
    /\ \A k \in 1..Len(s) : s[k] \in 48..57
    /\ Len(s) > 1 => s[1] # 48
    /\ ParseNat(s) = c

(***************************************************************************)
(* C10.  After run_simulation returns exit_code.txt is the outcome's       *)
(* token: "-1 timed out" exactly when the time limit elapsed with the      *)
(* child running (the child was killed for it); "-2" on a spawn failure,   *)
(* on a wait failure and for an exited child without an exit code;         *)
(* otherwise the decimal exit code.  Nothing else is written.              *)
(***************************************************************************)
C10_ExitCodeToken ==
    Returned =>
        /\ WrittenNow("exit_code.txt")
        /\ result \in {"spawn_err", "wait_err", "exited", "timeout"}
        /\ Artifact("exit_code.txt").data = TimedOutToken <=> child.state = "killed"
        /\ result \in {"spawn_err", "wait_err"} =>
              Artifact("exit_code.txt").data = << 45, 50 >>
        /\ (result = "exited" /\ child.status = None) =>
              Artifact("exit_code.txt").data = << 45, 50 >>
        /\ (result = "exited" /\ child.status # None) =>
              IsDecimalOf(Artifact("exit_code.txt").data, child.status[1])

\* A run that timed out has returned.
C10_Witness ==
    /\ Returned
    /\ child.state = "killed"
    /\ Artifact("exit_code.txt").data = TimedOutToken

\* The child's next step is a write to fd, and fd's pipe is full.
BlockedOn(fd) ==
    /\ child.state = "running"
    /\ ChildOp.op = "write"
    /\ ChildOp.fd = fd
    /\ Len(pipe[fd]) >= PipeCap

\* The program ends by itself, and starts nothing that keeps the pipes.
ExitsByItself(prog) == \A k \in 1..Len(prog) : prog[k].op # "hang"
KeepsPipes(prog) ==
    \E k \in 1..Len(prog) : prog[k].op = "fork" /\ prog[k].fd = "hold"

\* run_simulation is over: it has returned, or a filesystem failure has
\* made it panic.
RunOver == pc \in {"rs_ret", "panicked"}

\* The child is through: it has exited, or the time limit or a failed wait
\* has ended the supervision of it.
ChildThrough ==
    \/ child.state \in {"exited", "reaped", "killed"}
    \/ result = "wait_err"

C5_ReturnsAfterTimeout ==
    []((pc = "rs_join_out" /\ result = "timeout") => <>RunOver)

\* The run indices run_simulation was called with for record r, in the
\* order of the calls.
RunCalls(r) ==
    LET RECURSIVE Calls(_)
        Calls(k) ==
            IF k = 0 THEN << >>
            ELSE IF trace[k].ev = "run" /\ trace[k].r = r
                 THEN Append(Calls(k - 1), trace[k].run)
                 ELSE Calls(k - 1)
    IN  Calls(Len(trace))

\* A filesystem call has failed and ended the batch: the error main returns,
\* or the panic of an unwrap() in run_simulation.
Panicked(r, k) == \E j \in 1..Len(trace) : trace[j] = Event("panic", r, k, "duration")
FsStopped ==
    \/ pc = "error" /\ records = table
    \/ pc = "panicked" /\ ~Panicked(ri, i)

(***************************************************************************)
(* C11.  Once the run loop of a record has started, run_simulation is      *)
(* called once for each run index 1..RUNS_PER_ISSUE, in ascending order,   *)
(* none twice and none left out: every call returns, whatever the run's    *)
(* outcome, the loop goes through all its indices, and the only thing that *)
(* ends it early is a failed filesystem call.                              *)
(* The code does not do this: run_simulation never returns from a run that *)
(* timed out while a descendant of the child keeps the pipes open (C5),    *)
(* and it panics after the spawn on a TIMEOUT_SECS it cannot convert       *)
(* (C19); the runs after that one are never attempted.                     *)
(***************************************************************************)
C11_EveryRunAttempted ==
    /\ [](\A r \in 1..Len(records) :
            \A k \in 1..Len(RunCalls(r)) : RunCalls(r)[k] = k)
    /\ [](\A r \in 1..Len(records) :
            Has("end", r) => Len(RunCalls(r)) = RUNS_PER_ISSUE)
    /\ [](pc = "panicked" => FsStopped)
    /\ []((pc = "rs_mkdir") => <>(Returned \/ FsStopped))
    /\ \A r \in 1..NumRows :
          []((pc = "runs" /\ ri = r) => <>(Has("end", r) \/ FsStopped))

\* The positions of the trace at which the driver gave record r to the
\* pipeline: the pipeline's first step is the skip or the checkout.
Fed(r) == Events("skip", r) \cup Events("checkout_ok", r) \cup Events("checkout_fail", r)

(***************************************************************************)
(* C12.  The driver gives every record of the table to the pipeline once,  *)
(* in the order of the table: no record twice, none before an earlier one, *)
(* and when the batch is done none left out.  Whatever the pipeline of a   *)
(* record does (skip, failed checkout, failed cache reset, any outcome of  *)
(* its runs) it ends and the driver goes on; once processing has begun     *)
(* nothing but a failed filesystem call stops the batch.                   *)
(* The code does not do this: a run that timed out with the pipes still    *)
(* held open never returns (C5), and a TIMEOUT_SECS that cannot be         *)
(* converted panics in the first run (C19); the records after that one are *)
(* never processed.                                                        *)
(***************************************************************************)
C12_EveryRecordProcessed ==
    /\ [](\A r \in 1..Len(records) : Cardinality(Fed(r)) <= 1)
    /\ [](\A j, k \in 1..Len(trace) : j < k => trace[j].r <= trace[k].r)
    /\ [](pc = "done" => \A r \in 1..Len(table) : Cardinality(Fed(r)) = 1)
    /\ []((pc \in {"error", "panicked"} /\ trace # << >>) => FsStopped)
    /\ \A r \in 1..NumRows :
          []((pc = "loop" /\ ri = r /\ r <= Len(records))
                => <>(ri > r \/ FsStopped))
    /\ [](pc = "loop" => <>(pc = "done" \/ FsStopped))

\* results/<issue of record r>/commit.txt
CommitFile(r) == fs.files[FilePath(IssueDir(records[r].issue), "commit.txt")]

\* The positions of the trace at which the cache reset of record r was
\* called, whatever it gave.
CacheCalls(r) == Events("cache_ok", r) \cup Events("cache_fail", r)

(***************************************************************************)
(* C13.  commit.txt is written before the cache reset is called, so for    *)
(* every record whose checkout succeeded, once its pipeline is over (also  *)
(* when a failed cache reset ended it) results/<issue_id>/commit.txt       *)
(* exists and holds the revision and a line feed.                          *)
(* The code does not do this: it writes commit.txt after the cache reset,  *)
(* and not at all when the cache reset fails.                              *)
(***************************************************************************)
C13_CommitPersisted ==
    \A r \in 1..Len(records) :
        /\ \A c \in CacheCalls(r) :
              \E w \in 1..c : trace[w] = Event("write", r, 0, "commit.txt")
        /\ (PipelineEnded(r) /\ Has("checkout_ok", r)) =>
              /\ CommitFile(r).exists
              /\ CommitFile(r).data = CommitText(Unwrap(Commit(records[r])))

(***************************************************************************)
(* C14.  A run of a record is started only after the checkout and then the *)
(* cache reset of that record have both succeeded, in that order; for a    *)
(* record whose cache reset failed no run directory is created and no run  *)
(* is attempted.                                                           *)
(***************************************************************************)
C14_RunsAfterCheckoutAndCacheReset ==
    \A r \in 1..Len(records) :
        /\ LET started == Events("run", r) \cup Events("spawn", r)
           IN  started # {} =>
                  \E a \in Events("checkout_ok", r) :
                      \E b \in Events("cache_ok", r) :
                          a < b /\ \A k \in started : b < k
        /\ Has("cache_fail", r) =>
              /\ ~Has("run", r) /\ ~Has("spawn", r)
              /\ RunDirsEnsured(r) = {}
              /\ \A d \in fs.made : d.issue = records[r].issue => d.run = 0
              /\ \A p \in FilePaths :
                    (p.issue = records[r].issue /\ p.run > 0) =>
                        fs.files[p] \in {NoFile, FileOf(OldData, Prior)}

\* The cache reset of a record failed after its directory was created, the
\* driver went on, and a run of the next record was started.
C14_Witness ==
    \E r \in 1..Len(records) :
        /\ Has("cache_fail", r)
        /\ IssueDir(records[r].issue) \in fs.made
        /\ r < Len(records)
        /\ Has("spawn", r + 1)

(***************************************************************************)
(* C15.  Whenever run_simulation returns after a successful spawn,         *)
(* whatever the outcome (a failed wait too), the child is no longer        *)
(* running (it has exited or was killed, and is reaped) and both drain     *)
(* threads have terminated; no run leaves a process or a thread behind for *)
(* the next run or the next record to overlap with.                        *)
(* The code does not do this: the arm of a failed wait writes its two      *)
(* files and returns, with the child as it is and no thread joined.        *)
(***************************************************************************)
C15_ReleasedOnReturn ==
    /\ (Returned /\ result # "spawn_err") =>
          /\ child.state \in {"reaped", "killed"}
          /\ \A fd \in Fds : drain[fd] = "done"
    /\ orphans = {}

\* The pcs at which run_simulation, its drain threads started, is about to
\* write an artifact.
WritePcs == {"rs_w_out", "rs_w_err", "rs_w_code", "rs_we_err", "rs_we_code"}

(***************************************************************************)
(* C16.  In every execution of run_simulation that started the drain       *)
(* threads, an artifact is written only after both threads have finished   *)
(* and were joined; what stdout.txt and stderr.txt then hold is the final  *)
(* content of the two buffers.                                             *)
(* The code does not do this: the arm of a failed wait writes stderr.txt   *)
(* and exit_code.txt with neither thread joined (C15).                     *)
(***************************************************************************)
C16_WritesAfterJoin ==
    /\ pc \in WritePcs => \A fd \in Fds : drain[fd] = "done"
    /\ (Returned /\ result \in {"exited", "timeout"}) =>
          /\ Artifact("stdout.txt").data = data["out"]
          /\ Artifact("stderr.txt").data = data["err"]

\* The number of ev events among the first k of the trace.
CountBefore(ev, k) == Cardinality({j \in 1..(k - 1) : trace[j].ev = ev})

\* The pcs of main outside run_simulation, the batch not ended by an error.
MainPcs == {"start", "loop", "mkissue", "cache", "commit", "runs", "done"}

(***************************************************************************)
(* C17.  Execution is strictly sequential.  A run is started only when     *)
(* every earlier run has returned, so at most one is in progress; the      *)
(* pipeline of a record (its skip or its checkout) begins only when every  *)
(* run of the records before it has returned; and the only threads and     *)
(* processes there are besides main are those of the run in progress:      *)
(* outside run_simulation nothing of a run is running, and inside it       *)
(* nothing of an earlier run.                                              *)
(* The code does not do this: a run whose wait failed returns with its     *)
(* child and drain threads running (C15), and they run on beside the next  *)
(* run and the next record's checkout.                                     *)
(***************************************************************************)
C17_StrictlySequential ==
    /\ \A k \in 1..Len(trace) :
          trace[k].ev \in {"run", "skip", "checkout_ok", "checkout_fail"} =>
              CountBefore("run", k) = CountBefore("ret", k)
    /\ \A k \in 1..Len(trace) :
          trace[k].ev \in {"skip", "checkout_ok", "checkout_fail"} =>
              \A j \in 1..(k - 1) : trace[j].r < trace[k].r
    /\ pc \in MainPcs => ~Unreleased
    /\ orphans = {}

\* Some row of the table does not deserialize.
TableBroken == \E k \in 1..Len(table) : ~table[k].ok

(***************************************************************************)
(* C18.  If reading the table fails on any row, also on one after rows     *)
(* that were read, the batch ends before any processing: no skip, no       *)
(* checkout and no cache reset, nothing created or written under results/, *)
(* no run started, not for the rows that were read either.                 *)
(***************************************************************************)
C18_BrokenTableNoProcessing ==
    TableBroken =>
        /\ pc \in {"start", "error"}
        /\ trace = << >>
        /\ fs \in {EmptyTree, PriorTree}
        /\ child = NoChild /\ drain = [fd \in Fds |-> "none"]
        /\ faults = 0

\* The read failed on a row after one that has a revision and was read.
C18_Witness ==
    /\ pc = "error"
    /\ records # << >>
    /\ Len(records) < Len(table)
    /\ ~Skipped(records[1])
    /\ trace = << >>

\* The time limit the environment asks for: the value of TIMEOUT_SECS when
\* it is the decimal text of an unsigned integer of u64's width (a "+"
\* before the digits allowed), 600 seconds otherwise.
AskedLimit(e) ==
    IF e = None THEN 600
    ELSE LET t == IF e[1] # << >> /\ e[1][1] = 43 THEN Tail(e[1]) ELSE e[1]
         IN  IF /\ t # << >>
                /\ \A k \in 1..Len(t) : t[k] \in 48..57
                /\ ParseNat(t) <= U64Max
             THEN ParseNat(t)
             ELSE 600

(***************************************************************************)
(* C19.  The time limit of every timed wait is the value of TIMEOUT_SECS   *)
(* when that is an unsigned integer of u64's width, and 600 seconds when   *)
(* it is not set or is no such integer; making the limit of the value      *)
(* (u64 to i64 seconds to the wait's duration) never wraps, never gives a  *)
(* negative limit and never ends the run after the child was spawned.      *)
(* The code does not do this: `timeout_secs as i64` wraps a value above    *)
(* i64::MAX to a negative one, on which to_std().expect() panics, and      *)
(* Duration::seconds panics above i64::MAX / 1000; both after the spawn.   *)
(***************************************************************************)
C19_TimeLimitIsTimeoutSecs ==
    /\ pc \in ActivePcs => limit = Some(AskedLimit(env))
    /\ limit # None => limit[1] >= 0
    /\ \A k \in 1..Len(trace) : trace[k].ev # "panic"

\* The positions of the trace at which the invocation of run k of record r
\* wrote an artifact.
Writes(r, k) ==
    {j \in 1..Len(trace) :
        trace[j].ev = "write" /\ trace[j].r = r /\ trace[j].run = k}

\* The pcs at which run_simulation has a write ahead of it.
PendingWritePcs == WritePcs \cup {"rs_sf_err", "rs_sf_code"}

(***************************************************************************)
(* C20.  Within one invocation of run_simulation no artifact is written    *)
(* twice, and exit_code.txt is the last file written on every path: no     *)
(* write of the invocation follows it, none is pending once it is written, *)
(* and it is the write just before the return.                             *)
(***************************************************************************)
C20_WriteOnceExitCodeLast ==
    /\ \A r \in 1..Len(records) : \A k \in 1..RUNS_PER_ISSUE :
          LET ws == Writes(r, k)
          IN  \A a \in ws : \A b \in ws :
                  a < b => /\ trace[a].name # trace[b].name
                           /\ trace[a].name # "exit_code.txt"
    /\ pc \in PendingWritePcs =>
          \A a \in Writes(ri, i) : trace[a].name # "exit_code.txt"
    /\ Returned => trace[Len(trace)] = Event("write", ri, i, "exit_code.txt")

\* The second run of a record has returned from a failed wait, its two
\* files written.
C20_Witness ==
    /\ Returned
    /\ i > 1
    /\ result = "wait_err"
    /\ Cardinality(Writes(ri, i)) = 2
    /\ Cardinality(Writes(ri, 1)) = 3

====
